---- MODULE Spec2Model ----
(***************************************************************************)
(* A model of the VroomMart data-access facade (server/storage.ts), the    *)
(* relational schema it runs on (shared/schema.ts) and the HTTP handlers   *)
(* that call it (server/routes.ts).                                        *)
(*                                                                         *)
(* Tables whose rows carry an id that other code reads (users, products,   *)
(* vrooms, comments, cart_items, orders, messages) are functions from the  *)
(* ids of the live rows to the row.  The edge tables (follows,             *)
(* vroom_follows, product_likes, product_bookmarks) carry nothing but the  *)
(* pair and a generated id, and no code reads that id, so they are bags:   *)
(* a function from the pair to the number of rows holding it.              *)
(*                                                                         *)
(* A statement that breaks a foreign key throws; the handler stops there   *)
(* and none of its later statements run.  In every facade operation the    *)
(* only statement that can break one is the first, an insert, so a call    *)
(* that throws changes nothing.                                            *)
(***************************************************************************)
EXTENDS Integers, FiniteSets, Sequences, TLC

\* ------------------------------------------------------------------ bounds
NumUsers == 2
MaxProducts == 2
MaxRows == 2
MaxQuantity == 2
MaxOps == 6
MaxViewOps == 3
MaxOrderOps == 5
\* the read operations are checked over seeded tables
MaxCatalog == 3
MaxTagged == 2
MaxCount == 1
MaxLimit == 2
MaxTime == 2
MaxMessages == 2
MaxRequests == 3
\* requests answered in the specifications of the cart and follow routes
MaxRouteOps == 5

UserIds == 1..NumUsers
ProductIds == 1..MaxProducts
RowIds == 1..MaxRows
\* quantities a request body may carry; 0 is the falsy one
Quantities == 0..MaxQuantity
Requests == 1..MaxRequests

NoId == 0

CatalogIds(n) == 1..n
Counts == 0..MaxCount
Limits == 0..MaxLimit
Times == 1..MaxTime
\* hashtag lists of a product; a hashtag is a word
TagLists == {<< >>, <<"a">>, <<"a", "b">>}
\* hashtag lists that repeat and overlap
CountedTagLists == {<< >>, <<"a">>, <<"a", "b">>, <<"b", "b">>, <<"c", "a">>}
\* texts are lists of characters
Titles == {<<"a">>, <<"A", "b">>, <<"c">>}
Descriptions == {<<"c">>, <<"b", "a">>}
\* the q of a search; the route turns an empty one away
Queries == {<<"a">>, <<"a", "B">>, <<"_">>}

\* the statuses the schema's comment lists for orders.status
OrderStatuses == {"pending", "confirmed", "shipped", "delivered", "cancelled"}
\* what a request body may carry as status: any string, or nothing
Undefined == "undefined"
BodyStatuses == OrderStatuses \cup {"refunded", Undefined}

VARIABLES
    users,              \* users table:    id -> [followersCount, followingCount]
    products,           \* products table: id -> [userId, likesCount, commentsCount, viewsCount]
    vrooms,             \* vrooms table:   id -> [userId, followersCount]
    follows,            \* bag of <<followerId, followingId>>
    vroomFollows,       \* bag of <<userId, vroomId>>
    productLikes,       \* bag of <<userId, productId>>
    productBookmarks,   \* bag of <<userId, productId>>
    comments,           \* comments table: id -> [userId, productId, parentId]
    cartItems,          \* cart_items:     id -> [userId, productId, quantity]
    orders,             \* orders table:   id -> [buyerId, sellerId, productId, status]
    messages,           \* messages table: id -> [senderId, receiverId, orderId, isRead]
    nextId,             \* per table, the next generated id (gen_random_uuid never repeats)
    requests,           \* GET /api/products/:id requests in flight
    served,             \* per product id, the requests that have run their view increment
    last,               \* the facade call that completed last, with what it saw and returned
    nops                \* number of calls so far

tables == <<users, products, vrooms, follows, vroomFollows, productLikes,
            productBookmarks, comments, cartItems, orders, messages, nextId>>
vars == <<users, products, vrooms, follows, vroomFollows, productLikes,
          productBookmarks, comments, cartItems, orders, messages, nextId,
          requests, served, last, nops>>

\* ----------------------------------------------------------------- helpers
RECURSIVE SumOver(_, _)
SumOver(f, S) ==
    IF S = {} THEN 0
    ELSE LET x == CHOOSE y \in S : TRUE IN f[x] + SumOver(f, S \ {x})

\* the function f without the keys in S
Without(f, S) == [x \in DOMAIN f \ S |-> f[x]]

\* the function f with one more key
With(f, k, v) == [x \in DOMAIN f \cup {k} |-> IF x = k THEN v ELSE f[x]]

\* count() of the follows rows whose followingId (resp. followerId) is userId
FollowerRows(fl, userId) == SumOver([a \in UserIds |-> fl[<<a, userId>>]], UserIds)
FollowingRows(fl, userId) == SumOver([b \in UserIds |-> fl[<<userId, b>>]], UserIds)

\* count() of the product_likes rows of a product
LikeRows(pl, productId) == SumOver([u \in UserIds |-> pl[<<u, productId>>]], UserIds)

\* the comment rows of a product
CommentRows(cm, productId) == {c \in DOMAIN cm : cm[c].productId = productId}

\* the cart rows of a (user, product) pair
CartRows(ci, userId, productId) ==
    {c \in DOMAIN ci : ci[c].userId = userId /\ ci[c].productId = productId}

\* ------------------------------------------------------------------- Init
Init ==
    /\ users = << >>
    /\ products = << >>
    /\ vrooms = << >>
    /\ follows = [e \in UserIds \X UserIds |-> 0]
    /\ vroomFollows = [e \in UserIds \X RowIds |-> 0]
    /\ productLikes = [e \in UserIds \X ProductIds |-> 0]
    /\ productBookmarks = [e \in UserIds \X ProductIds |-> 0]
    /\ comments = << >>
    /\ cartItems = << >>
    /\ orders = << >>
    /\ messages = << >>
    /\ nextId = [products |-> 1, vrooms |-> 1, comments |-> 1, cartItems |-> 1,
                 orders |-> 1, messages |-> 1]
    /\ requests = [r \in Requests |-> [pc |-> "idle", productId |-> NoId]]
    /\ served = [p \in ProductIds |-> 0]
    /\ last = [op |-> "none"]
    /\ nops = 0

\* a call whose insert breaks a foreign key throws before any statement has
\* taken effect: nothing changes and the call does not complete. That is a
\* stuttering step, which [][Next]_vars admits at every state, so the call
\* contributes no step of its own
Throws == FALSE

\* a call completes: `last` names it
Returns(call) == last' = call /\ nops' = nops + 1

\* ------------------------------------------------------------------ users
\* upsertUser: insert the row with the default counters, or on conflict update
\* the profile fields; the counters are not among the fields the caller sets.
upsertUser(id) ==
    /\ users' = IF id \in DOMAIN users THEN users
                ELSE With(users, id, [followersCount |-> 0, followingCount |-> 0])
    /\ Returns([op |-> "upsertUser"])
    /\ UNCHANGED <<products, vrooms, follows, vroomFollows, productLikes,
                   productBookmarks, comments, cartItems, orders, messages,
                   nextId, requests, served>>

\* updateUserStats with the two counts written to each other's column
MutUpdateUserStats(us, fl, userId) ==
    IF userId \in DOMAIN us
    THEN [us EXCEPT ![userId] = [followersCount |-> FollowingRows(fl, userId),
                                 followingCount |-> FollowerRows(fl, userId)]]
    ELSE us

\* updateUserStats: two count queries, then one update of the user's row
\* (which matches no row when the user is missing).
updateUserStats(us, fl, userId) ==
    IF userId \in DOMAIN us
    THEN [us EXCEPT ![userId] = [followersCount |-> FollowerRows(fl, userId),
                                 followingCount |-> FollowingRows(fl, userId)]]
    ELSE us

\* --------------------------------------------------------------- products
\* createProduct: one insert; the counters take their defaults (0).
createProduct(userId) ==
    /\ nextId.products \in ProductIds
    /\ IF userId \in DOMAIN users
       THEN /\ products' = With(products, nextId.products,
                                [userId |-> userId, likesCount |-> 0,
                                 commentsCount |-> 0, viewsCount |-> 0])
            /\ nextId' = [nextId EXCEPT !.products = @ + 1]
            /\ Returns([op |-> "createProduct"])
            /\ UNCHANGED <<users, vrooms, follows, vroomFollows, productLikes,
                           productBookmarks, comments, cartItems, orders,
                           messages, requests, served>>
       ELSE Throws

\* ----------------------------------------------------------------- follows
\* the insert of followUser
InsertFollow(fl, followerId, followingId) ==
    [fl EXCEPT ![<<followerId, followingId>>] = @ + 1]

\* a delete that removes one row of the pair and leaves its duplicates
MutDeleteFollow(fl, followerId, followingId) ==
    [fl EXCEPT ![<<followerId, followingId>>] = IF @ > 0 THEN @ - 1 ELSE 0]

\* the delete of unfollowUser: every row of the pair
DeleteFollow(fl, followerId, followingId) ==
    [fl EXCEPT ![<<followerId, followingId>>] = 0]

followUser(followerId, followingId) ==
    IF followerId \in DOMAIN users /\ followingId \in DOMAIN users
    THEN LET fl == InsertFollow(follows, followerId, followingId)
             u1 == updateUserStats(users, fl, followerId)
             u2 == updateUserStats(u1, fl, followingId)
         IN /\ follows' = fl
            /\ users' = u2
            /\ Returns([op |-> "followUser", followerId |-> followerId,
                        followingId |-> followingId])
            /\ UNCHANGED <<products, vrooms, vroomFollows, productLikes,
                           productBookmarks, comments, cartItems, orders,
                           messages, nextId, requests, served>>
    ELSE Throws

unfollowUser(followerId, followingId) ==
    /\ LET fl == DeleteFollow(follows, followerId, followingId)
           u1 == updateUserStats(users, fl, followerId)
           u2 == updateUserStats(u1, fl, followingId)
       IN /\ follows' = fl
          /\ users' = u2
    /\ Returns([op |-> "unfollowUser", followerId |-> followerId,
                followingId |-> followingId,
                deleted |-> follows[<<followerId, followingId>>]])
    /\ UNCHANGED <<products, vrooms, vroomFollows, productLikes, productBookmarks,
                   comments, cartItems, orders, messages, nextId, requests, served>>

isFollowingUser(followerId, followingId) == follows[<<followerId, followingId>>] > 0

\* ------------------------------------------------------------ product likes
\* the insert of likeProduct
InsertLike(pl, userId, productId) == [pl EXCEPT ![<<userId, productId>>] = @ + 1]

\* the delete of unlikeProduct: every row of the pair
DeleteLike(pl, userId, productId) == [pl EXCEPT ![<<userId, productId>>] = 0]

\* update products set likes_count = likes_count + d where id = productId
AddToLikesCount(pr, productId, d) ==
    IF productId \in DOMAIN pr
    THEN [pr EXCEPT ![productId].likesCount = @ + d]
    ELSE pr

\* unlikeProduct without its counter statement
MutUnlikeCounter(pr, productId) == pr

\* the counter statement of unlikeProduct
UnlikeCounter(pr, productId) == AddToLikesCount(pr, productId, -1)

likeProduct(userId, productId) ==
    IF userId \in DOMAIN users /\ productId \in DOMAIN products
    THEN /\ productLikes' = InsertLike(productLikes, userId, productId)
         /\ products' = AddToLikesCount(products, productId, 1)
         /\ Returns([op |-> "likeProduct", userId |-> userId,
                     productId |-> productId,
                     before |-> products[productId].likesCount])
         /\ UNCHANGED <<users, vrooms, follows, vroomFollows, productBookmarks,
                        comments, cartItems, orders, messages, nextId,
                        requests, served>>
    ELSE Throws

\* whether the call that completed last was a likeProduct of this pair
JustLiked(userId, productId) ==
    /\ last.op = "likeProduct"
    /\ last.userId = userId
    /\ last.productId = productId

unlikeProduct(userId, productId) ==
    /\ productLikes' = DeleteLike(productLikes, userId, productId)
    /\ products' = UnlikeCounter(products, productId)
    /\ Returns([op |-> "unlikeProduct", userId |-> userId, productId |-> productId,
                deleted |-> productLikes[<<userId, productId>>],
                afterLike |-> JustLiked(userId, productId),
                beforeLike |-> IF JustLiked(userId, productId)
                               THEN last.before ELSE 0])
    /\ UNCHANGED <<users, vrooms, follows, vroomFollows, productBookmarks,
                   comments, cartItems, orders, messages, nextId, requests, served>>

isProductLiked(userId, productId) == productLikes[<<userId, productId>>] > 0

\* -------------------------------------------------------- product bookmarks
bookmarkProduct(userId, productId) ==
    IF userId \in DOMAIN users /\ productId \in DOMAIN products
    THEN /\ productBookmarks' =
                [productBookmarks EXCEPT ![<<userId, productId>>] = @ + 1]
         /\ Returns([op |-> "bookmarkProduct"])
         /\ UNCHANGED <<users, products, vrooms, follows, vroomFollows,
                        productLikes, comments, cartItems, orders, messages,
                        nextId, requests, served>>
    ELSE Throws

\* -------------------------------------------------------------------- cart
\* `x || 1` on a number: 0 is falsy
OrOne(x) == IF x = 0 THEN 1 ELSE x

\* an update that overwrites the quantity with the requested amount
MutMergedQuantity(existingQuantity, quantity) == OrOne(quantity)

\* the quantity addToCart writes to the row it found
MergedQuantity(existingQuantity, quantity) == existingQuantity + OrOne(quantity)

\* whether the call that completed last was an addToCart that inserted the
\* first row of this pair
JustInserted(userId, productId) ==
    /\ last.op = "addToCart"
    /\ last.inserted
    /\ last.userId = userId
    /\ last.productId = productId

addToCart(userId, productId, quantity) ==
    /\ CartRows(cartItems, userId, productId) = {} => nextId.cartItems \in RowIds
    /\ LET call == [op |-> "addToCart", userId |-> userId, productId |-> productId,
                    quantity |-> quantity,
                    afterInsert |-> JustInserted(userId, productId),
                    firstQuantity |-> IF JustInserted(userId, productId)
                                      THEN last.quantity ELSE 0]
       IN
       IF CartRows(cartItems, userId, productId) # {}
       THEN \E id \in CartRows(cartItems, userId, productId) :
              LET q == MergedQuantity(cartItems[id].quantity, quantity) IN
              /\ cartItems' = [cartItems EXCEPT ![id].quantity = q]
              /\ Returns([inserted |-> FALSE,
                          ret |-> [id |-> id, quantity |-> q]] @@ call)
              /\ UNCHANGED <<users, products, vrooms, follows, vroomFollows,
                             productLikes, productBookmarks, comments, orders,
                             messages, nextId, requests, served>>
       ELSE IF userId \in DOMAIN users /\ productId \in DOMAIN products
       THEN /\ cartItems' = With(cartItems, nextId.cartItems,
                                 [userId |-> userId, productId |-> productId,
                                  quantity |-> quantity])
            /\ nextId' = [nextId EXCEPT !.cartItems = @ + 1]
            /\ Returns([inserted |-> TRUE,
                        ret |-> [id |-> nextId.cartItems, quantity |-> quantity]]
                       @@ call)
            /\ UNCHANGED <<users, products, vrooms, follows, vroomFollows,
                           productLikes, productBookmarks, comments, orders,
                           messages, requests, served>>
       ELSE Throws

\* POST /api/cart: the caller's id, the body's productId and `quantity || 1`
postCart(userId, productId, bodyQuantity) ==
    addToCart(userId, productId, OrOne(bodyQuantity))

\* ---------------------------------------------------------------- comments
\* createComment without its counter statement on replies
MutCommentCounter(pr, productId, parentId) ==
    IF productId \in DOMAIN pr /\ parentId = NoId
    THEN [pr EXCEPT ![productId].commentsCount = @ + 1]
    ELSE pr

\* the counter statement of createComment
CommentCounter(pr, productId, parentId) ==
    IF productId \in DOMAIN pr
    THEN [pr EXCEPT ![productId].commentsCount = @ + 1]
    ELSE pr

createComment(userId, productId, parentId) ==
    /\ nextId.comments \in RowIds
    /\ IF /\ userId \in DOMAIN users
          /\ productId \in DOMAIN products
          /\ parentId = NoId \/ parentId \in DOMAIN comments
       THEN /\ comments' = With(comments, nextId.comments,
                                [userId |-> userId, productId |-> productId,
                                 parentId |-> parentId])
            /\ nextId' = [nextId EXCEPT !.comments = @ + 1]
            /\ products' = CommentCounter(products, productId, parentId)
            /\ Returns([op |-> "createComment", userId |-> userId,
                        productId |-> productId, parentId |-> parentId,
                        id |-> nextId.comments,
                        rowsBefore |-> DOMAIN comments,
                        countsBefore |-> [p \in DOMAIN products |->
                                            products[p].commentsCount]])
            /\ UNCHANGED <<users, vrooms, follows, vroomFollows, productLikes,
                           productBookmarks, cartItems, orders, messages,
                           requests, served>>
       ELSE Throws

\* ------------------------------------------------------------------ vrooms
createVroom(userId) ==
    /\ nextId.vrooms \in RowIds
    /\ IF userId \in DOMAIN users
       THEN /\ vrooms' = With(vrooms, nextId.vrooms,
                              [userId |-> userId, followersCount |-> 0])
            /\ nextId' = [nextId EXCEPT !.vrooms = @ + 1]
            /\ Returns([op |-> "createVroom"])
            /\ UNCHANGED <<users, products, follows, vroomFollows, productLikes,
                           productBookmarks, comments, cartItems, orders,
                           messages, requests, served>>
       ELSE Throws

followVroom(userId, vroomId) ==
    IF userId \in DOMAIN users /\ vroomId \in DOMAIN vrooms
    THEN /\ vroomFollows' = [vroomFollows EXCEPT ![<<userId, vroomId>>] = @ + 1]
         /\ vrooms' = [vrooms EXCEPT ![vroomId].followersCount = @ + 1]
         /\ Returns([op |-> "followVroom"])
         /\ UNCHANGED <<users, products, follows, productLikes, productBookmarks,
                        comments, cartItems, orders, messages, nextId,
                        requests, served>>
    ELSE Throws

\* ------------------------------------------------------------------ orders
createOrder(buyerId, sellerId, productId, status) ==
    /\ nextId.orders \in RowIds
    /\ IF /\ buyerId \in DOMAIN users
          /\ sellerId \in DOMAIN users
          /\ productId \in DOMAIN products
       THEN /\ orders' = With(orders, nextId.orders,
                              [buyerId |-> buyerId, sellerId |-> sellerId,
                               productId |-> productId, status |-> status])
            /\ nextId' = [nextId EXCEPT !.orders = @ + 1]
            /\ Returns([op |-> "createOrder"])
            /\ UNCHANGED <<users, products, vrooms, follows, vroomFollows,
                           productLikes, productBookmarks, comments, cartItems,
                           messages, requests, served>>
       ELSE Throws

\* orders.status: varchar("status").default('pending')
StatusDefault(status) == IF status = Undefined THEN "pending" ELSE status

\* POST /api/orders: buyerId is the caller, everything else is the body's;
\* insertOrderSchema asks for strings and checks no value against another row
postOrder(buyerId, bodySellerId, bodyProductId, bodyStatus) ==
    createOrder(buyerId, bodySellerId, bodyProductId, StatusDefault(bodyStatus))

\* .set({ status, updatedAt }): a key whose value is undefined is left out of
\* the update
StatusAfterUpdate(current, status) == IF status = Undefined THEN current ELSE status

\* updateOrderStatus, as PUT /api/orders/:id/status calls it with the body's
\* status; the update matches no row when the order is missing
updateOrderStatus(id, status) ==
    /\ orders' = IF id \in DOMAIN orders
                 THEN [orders EXCEPT ![id].status = StatusAfterUpdate(@, status)]
                 ELSE orders
    /\ Returns([op |-> "updateOrderStatus"])
    /\ UNCHANGED <<users, products, vrooms, follows, vroomFollows, productLikes,
                   productBookmarks, comments, cartItems, messages, nextId,
                   requests, served>>

\* ---------------------------------------------------------------- messages
sendMessage(senderId, receiverId, orderId) ==
    /\ nextId.messages \in RowIds
    /\ IF /\ senderId \in DOMAIN users
          /\ receiverId \in DOMAIN users
          /\ orderId = NoId \/ orderId \in DOMAIN orders
       THEN /\ messages' = With(messages, nextId.messages,
                                [senderId |-> senderId, receiverId |-> receiverId,
                                 orderId |-> orderId, isRead |-> FALSE])
            /\ nextId' = [nextId EXCEPT !.messages = @ + 1]
            /\ Returns([op |-> "sendMessage"])
            /\ UNCHANGED <<users, products, vrooms, follows, vroomFollows,
                           productLikes, productBookmarks, comments, cartItems,
                           orders, requests, served>>
       ELSE Throws

\* ------------------------------------------- foreign keys, onDelete: cascade
\* products.user_id, vrooms.user_id
OwnedRows(tbl, delUsers) == {r \in DOMAIN tbl : tbl[r].userId \in delUsers}

\* an edge table after the rows that reference a deleted left or right row go
EdgesAfterDelete(bag, delLeft, delRight) ==
    [e \in DOMAIN bag |-> IF e[1] \in delLeft \/ e[2] \in delRight THEN 0 ELSE bag[e]]

\* comments.parent_id: the replies to deleted comments go with them
RECURSIVE WithReplies(_, _)
WithReplies(cm, del) ==
    LET more == {c \in DOMAIN cm : cm[c].parentId \in del} \ del
    IN IF more = {} THEN del ELSE WithReplies(cm, del \cup more)

\* comments.user_id, comments.product_id, comments.parent_id
DeletedComments(cm, delUsers, delProducts) ==
    WithReplies(cm, {c \in DOMAIN cm : \/ cm[c].userId \in delUsers
                                       \/ cm[c].productId \in delProducts})

\* cart_items.user_id, cart_items.product_id
DeletedCartItems(ci, delUsers, delProducts) ==
    {c \in DOMAIN ci : ci[c].userId \in delUsers \/ ci[c].productId \in delProducts}

\* orders.buyer_id, orders.seller_id, orders.product_id
DeletedOrders(od, delUsers, delProducts) ==
    {o \in DOMAIN od : \/ od[o].buyerId \in delUsers
                       \/ od[o].sellerId \in delUsers
                       \/ od[o].productId \in delProducts}

\* messages.order_id declared without a cascade: the messages of a deleted
\* order stay
MutDeletedMessages(ms, delUsers, delOrders) ==
    {m \in DOMAIN ms : ms[m].senderId \in delUsers \/ ms[m].receiverId \in delUsers}

\* messages.sender_id, messages.receiver_id, messages.order_id
DeletedMessages(ms, delUsers, delOrders) ==
    {m \in DOMAIN ms : \/ ms[m].senderId \in delUsers
                       \/ ms[m].receiverId \in delUsers
                       \/ ms[m].orderId \in delOrders}

\* what the database does when the rows delUsers of users and delProducts of
\* products are deleted
cascade(delUsers, delProducts) ==
    LET delVrooms == OwnedRows(vrooms, delUsers)
        delOrders == DeletedOrders(orders, delUsers, delProducts)
    IN /\ users' = Without(users, delUsers)
       /\ products' = Without(products, delProducts)
       /\ vrooms' = Without(vrooms, delVrooms)
       /\ follows' = EdgesAfterDelete(follows, delUsers, delUsers)
       /\ vroomFollows' = EdgesAfterDelete(vroomFollows, delUsers, delVrooms)
       /\ productLikes' = EdgesAfterDelete(productLikes, delUsers, delProducts)
       /\ productBookmarks' = EdgesAfterDelete(productBookmarks, delUsers, delProducts)
       /\ comments' = Without(comments, DeletedComments(comments, delUsers, delProducts))
       /\ cartItems' = Without(cartItems, DeletedCartItems(cartItems, delUsers, delProducts))
       /\ orders' = Without(orders, delOrders)
       /\ messages' = Without(messages, DeletedMessages(messages, delUsers, delOrders))

\* the rows a deletion of delUsers and delProducts removes without their
\* naming any of delUsers themselves
RemovedThroughOthers(delUsers, delProducts) ==
    [comments |-> {c \in DeletedComments(comments, delUsers, delProducts) :
                      comments[c].userId \notin delUsers},
     orders   |-> {o \in DeletedOrders(orders, delUsers, delProducts) :
                      /\ orders[o].buyerId \notin delUsers
                      /\ orders[o].sellerId \notin delUsers},
     messages |-> {m \in DeletedMessages(messages, delUsers,
                                         DeletedOrders(orders, delUsers, delProducts)) :
                      /\ messages[m].senderId \notin delUsers
                      /\ messages[m].receiverId \notin delUsers}]

\* delete from users where id = ...: the row and everything the schema cascades to
deleteUser(id) ==
    /\ id \in DOMAIN users
    /\ cascade({id}, OwnedRows(products, {id}))
    /\ Returns([op |-> "deleteUser", userId |-> id,
                through |-> RemovedThroughOthers({id}, OwnedRows(products, {id}))])
    /\ UNCHANGED <<nextId, requests, served>>

\* deleteProduct: delete from products where id = ...
deleteProduct(id) ==
    /\ id \in DOMAIN products
    /\ cascade({}, {id})
    /\ Returns([op |-> "deleteProduct"])
    /\ UNCHANGED <<nextId, requests, served>>

\* ------------------------------------------------- GET /api/products/:id
\* an increment computed from the value the handler read earlier
MutViewsAfterIncrement(current, seen) == seen + 1

\* set views_count = views_count + 1: the database evaluates it on the row's
\* current value, in one statement
ViewsAfterIncrement(current, seen) == current + 1

\* incrementProductViews
incrementProductViews(pr, productId, seen) ==
    IF productId \in DOMAIN pr
    THEN [pr EXCEPT ![productId].viewsCount = ViewsAfterIncrement(@, seen)]
    ELSE pr

\* the handler up to the answer of getProductWithUser: 404 when there is no row
getProductRead(r, id) ==
    /\ requests[r].pc = "idle"
    /\ requests' = [requests EXCEPT ![r] =
                      IF id \in DOMAIN products
                      THEN [pc |-> "found", productId |-> id,
                            seen |-> products[id].viewsCount]
                      ELSE [pc |-> "404", productId |-> id]]
    /\ UNCHANGED <<users, products, vrooms, follows, vroomFollows, productLikes,
                   productBookmarks, comments, cartItems, orders, messages,
                   nextId, served, last, nops>>

\* the rest of the handler: incrementProductViews, then the 200 answer
getProductIncrement(r) ==
    /\ requests[r].pc = "found"
    /\ products' = incrementProductViews(products, requests[r].productId,
                                         requests[r].seen)
    /\ served' = [served EXCEPT ![requests[r].productId] = @ + 1]
    /\ requests' = [requests EXCEPT ![r].pc = "200"]
    /\ UNCHANGED <<users, vrooms, follows, vroomFollows, productLikes,
                   productBookmarks, comments, cartItems, orders, messages,
                   nextId, last, nops>>

\* ------------------------------------------------------------ read operations
\* The read operations change no table.  They are checked from seeded states:
\* every user exists and the tables hold rows that creations, likes, views and
\* updates of isAvailable can have left.  Product rows carry here the further
\* columns the queries read.  A hashtags column that is NULL and one that is
\* the empty array are read alike by every query below and are both << >>.
ProductRow(available, likes, views, time, tags, title, description) ==
    [userId |-> 1, likesCount |-> likes, commentsCount |-> 0, viewsCount |-> views,
     isAvailable |-> available, createdAt |-> time, hashtags |-> tags,
     title |-> title, description |-> description]

\* the state in which every user exists and the tables hold the given rows
Seeded(pr, pl, pb, ms) ==
    /\ users = [u \in UserIds |-> [followersCount |-> 0, followingCount |-> 0]]
    /\ products = pr
    /\ vrooms = << >>
    /\ follows = [e \in UserIds \X UserIds |-> 0]
    /\ vroomFollows = [e \in UserIds \X RowIds |-> 0]
    /\ productLikes = pl
    /\ productBookmarks = pb
    /\ comments = << >>
    /\ cartItems = << >>
    /\ orders = << >>
    /\ messages = ms
    /\ nextId = [products |-> Cardinality(DOMAIN pr) + 1, vrooms |-> 1,
                 comments |-> 1, cartItems |-> 1, orders |-> 1,
                 messages |-> Cardinality(DOMAIN ms) + 1]
    /\ requests = [r \in Requests |-> [pc |-> "idle", productId |-> NoId]]
    /\ served = [p \in ProductIds |-> 0]
    /\ last = [op |-> "none"]
    /\ nops = 0

NoEdges == [e \in UserIds \X ProductIds |-> 0]

\* a read ends: `last` holds its arguments and its answer; no table changes
Answers(call) ==
    /\ last' = call
    /\ UNCHANGED <<tables, requests, served, nops>>

\* the enumerations of a finite set, each element once
RECURSIVE Perms(_)
Perms(S) ==
    IF S = {} THEN {<< >>}
    ELSE UNION {{<<x>> \o q : q \in Perms(S \ {x})} : x \in S}

\* ORDER BY: the rows in an order that never puts a row after one it ranks
\* strictly above (above is the set of pairs <<a, b>> with a ranked strictly
\* above b); rows the keys do not tell apart come in any order, and the order
\* may differ from one execution to the next
OrderBy(S, above) ==
    {q \in Perms(S) : \A i, j \in 1..Len(q) : i < j => <<q[j], q[i]>> \notin above}

\* OFFSET k
Offset(q, k) == SubSeq(q, k + 1, Len(q))

\* LIMIT n, and Array.prototype.slice(0, n) for n >= 0
Limit(q, n) == SubSeq(q, 1, IF n < Len(q) THEN n ELSE Len(q))

\* where is_available = true
Available(pr) == {p \in DOMAIN pr : pr[p].isAvailable}

\* ---------------------------------------------------- getTrendingProducts
\* an order by likesCount alone
MutTrendingAbove(pr, a, b) == pr[a].likesCount > pr[b].likesCount

\* orderBy(desc(likesCount), desc(viewsCount))
TrendingAbove(pr, a, b) ==
    \/ pr[a].likesCount > pr[b].likesCount
    \/ pr[a].likesCount = pr[b].likesCount /\ pr[a].viewsCount > pr[b].viewsCount

\* the answers the query of getTrendingProducts can give
TrendingResults(pr, limit) ==
    LET above == {e \in (DOMAIN pr) \X (DOMAIN pr) :
                        TrendingAbove(pr, e[1], e[2])}
    IN {Limit(q, limit) : q \in OrderBy(Available(pr), above)}

getTrendingProducts(limit) ==
    \E rows \in TrendingResults(products, limit) :
        Answers([op |-> "getTrendingProducts", limit |-> limit, rows |-> rows])

\* ------------------------------------------------- getRecommendedProducts
\* the elements of a list
Range(q) == {q[i] : i \in 1..Len(q)}

\* the product ids of the user's product_likes and product_bookmarks rows
InteractedProductIds(pl, pb, userId) ==
    {p \in ProductIds : pl[<<userId, p>>] > 0 \/ pb[<<userId, p>>] > 0}

\* the Set filled from the hashtags of the products with those ids
UserHashtags(pr, ids) == UNION {Range(pr[p].hashtags) : p \in ids \cap DOMAIN pr}

\* sql`${products.hashtags} && ${values}` with values a JS array.  The sql tag
\* writes an array placed in the template as a parenthesised list of its
\* elements, one parameter each: hashtags && ($1, ..., $k).  With k >= 2 the
\* right operand is a row; with k = 1 it is one text parameter, which the
\* database reads as an array literal; with k = 0 it is ().
ArrayOperand(values) ==
    IF Cardinality(values) >= 2 THEN "record"
    ELSE IF Cardinality(values) = 1 THEN "text" ELSE "none"

\* text[] && record is no operator, and a hashtag word is not an array
\* literal ("malformed array literal"): the statement runs only when the
\* operand is an array
OverlapRuns(operand) == operand = "text[]"

\* the && of two arrays
Overlaps(tags, values) == Range(tags) \cap values # {}

\* a fallback that calls getTrendingProducts() without the caller's limit
MutRecommendedFallback(pr, limit) == TrendingResults(pr, 10)

\* return this.getTrendingProducts(limit)
RecommendedFallback(pr, limit) == TrendingResults(pr, limit)

\* orderBy(desc(products.likesCount))
LikesAbove(pr, a, b) == pr[a].likesCount > pr[b].likesCount

\* the answers of the similar-hashtags query, when it runs
SimilarResults(pr, values, limit) ==
    LET above == {e \in (DOMAIN pr) \X (DOMAIN pr) :
                        LikesAbove(pr, e[1], e[2])}
    IN {Limit(q, limit) :
          q \in OrderBy({p \in Available(pr) : Overlaps(pr[p].hashtags, values)}, above)}

getRecommendedProducts(userId, limit) ==
    LET ids == InteractedProductIds(productLikes, productBookmarks, userId)
        userHashtags == UserHashtags(products, ids)
        call == [op |-> "getRecommendedProducts", userId |-> userId, limit |-> limit]
    IN IF ids = {} \/ userHashtags = {}
       THEN \E rows \in RecommendedFallback(products, limit) :
               Answers([threw |-> FALSE, rows |-> rows] @@ call)
       ELSE IF OverlapRuns(ArrayOperand(userHashtags))
       THEN \E rows \in SimilarResults(products, userHashtags, limit) :
               Answers([threw |-> FALSE, rows |-> rows] @@ call)
       ELSE Answers([threw |-> TRUE, rows |-> << >>] @@ call)

\* ----------------------------------------------------------- searchProducts
\* case folding of ILIKE
Lower(c) == IF c = "A" THEN "a" ELSE IF c = "B" THEN "b" ELSE c

\* text LIKE pattern, case folded: % stands for any run of characters and _
\* for any one character
RECURSIVE Like(_, _)
Like(pattern, text) ==
    IF pattern = << >> THEN text = << >>
    ELSE IF Head(pattern) = "%"
    THEN Like(Tail(pattern), text) \/ (text # << >> /\ Like(pattern, Tail(text)))
    ELSE /\ text # << >>
         /\ Head(pattern) = "_" \/ Lower(Head(pattern)) = Lower(Head(text))
         /\ Like(Tail(pattern), Tail(text))

\* ilike(column, `%${query}%`): the query goes into the pattern as it is
ILike(text, query) == Like(<<"%">> \o query \o <<"%">>, text)

\* orderBy(desc(products.createdAt))
NewerAbove(pr, a, b) == pr[a].createdAt > pr[b].createdAt

\* the rows the conditions of searchProducts keep, without the hashtag one
SearchMatches(pr, query) ==
    {p \in Available(pr) : ILike(pr[p].title, query) \/ ILike(pr[p].description, query)}

\* searchProducts; hashtags absent and hashtags empty are both << >>
searchProducts(query, hashtags) ==
    LET above == {e \in (DOMAIN products) \X (DOMAIN products) :
                        NewerAbove(products, e[1], e[2])}
        call == [op |-> "searchProducts", query |-> query, hashtags |-> hashtags]
    IN IF Len(hashtags) = 0
       THEN \E rows \in OrderBy(SearchMatches(products, query), above) :
               Answers([threw |-> FALSE, rows |-> rows] @@ call)
       ELSE IF OverlapRuns(ArrayOperand(Range(hashtags)))
       THEN \E rows \in OrderBy({p \in SearchMatches(products, query) :
                                    Overlaps(products[p].hashtags, Range(hashtags))},
                                above) :
               Answers([threw |-> FALSE, rows |-> rows] @@ call)
       ELSE Answers([threw |-> TRUE, rows |-> << >>] @@ call)

\* ------------------------------------------------------ getTrendingHashtags
\* a select that leaves out the isAvailable condition
MutHashtagProducts(pr) == DOMAIN pr

\* select hashtags from products where is_available = true
HashtagProducts(pr) == Available(pr)

\* the hashtags met by the two loops, in the order met, for rows in the order q
RECURSIVE HashtagsMet(_, _)
HashtagsMet(pr, q) ==
    IF q = << >> THEN << >> ELSE pr[Head(q)].hashtags \o HashtagsMet(pr, Tail(q))

\* the keys of the Map, in insertion order: each hashtag where first met
RECURSIVE MapKeys(_, _)
MapKeys(met, seen) ==
    IF met = << >> THEN << >>
    ELSE IF Head(met) \in seen THEN MapKeys(Tail(met), seen)
    ELSE <<Head(met)>> \o MapKeys(Tail(met), seen \cup {Head(met)})

\* the value the Map holds for a hashtag: one per time it was met
MapCount(met, hashtag) == Cardinality({i \in 1..Len(met) : met[i] = hashtag})

\* Array.from(hashtagCount.entries()).map(...)
MapEntries(met) ==
    LET keys == MapKeys(met, {})
    IN [i \in 1..Len(keys) |-> [hashtag |-> keys[i], count |-> MapCount(met, keys[i])]]

\* one step of the stable sort: e goes after every entry whose count is not
\* smaller
InsertByCount(sorted, e) ==
    LET k == Cardinality({i \in 1..Len(sorted) : sorted[i].count >= e.count})
    IN SubSeq(sorted, 1, k) \o <<e>> \o SubSeq(sorted, k + 1, Len(sorted))

\* .sort((a, b) => b.count - a.count): stable, entries of equal count keep
\* their order
RECURSIVE SortByCount(_, _)
SortByCount(sorted, rest) ==
    IF rest = << >> THEN sorted
    ELSE SortByCount(InsertByCount(sorted, Head(rest)), Tail(rest))

\* the select has no ORDER BY: the rows come in any order
getTrendingHashtags(limit) ==
    \E q \in Perms(HashtagProducts(products)) :
        Answers([op |-> "getTrendingHashtags", limit |-> limit,
                 rows |-> Limit(SortByCount(<< >>, MapEntries(HashtagsMet(products, q))),
                                limit)])

\* -------------------------------------------------------------- getProducts
\* getProducts(limit, offset): each call is a query of its own, and the
\* database orders rows of equal createdAt as it likes each time.  `last`
\* keeps what a reader who walks the pages from offset 0 has fetched so far;
\* the walk is done at the first page shorter than limit.
getProducts(limit, offset) ==
    LET above == {e \in (DOMAIN products) \X (DOMAIN products) :
                        NewerAbove(products, e[1], e[2])}
        walking == /\ last.op = "getProducts"
                   /\ ~last.done
                   /\ last.limit = limit
                   /\ offset = last.offset + limit
    IN /\ offset = 0 \/ walking
       /\ \E q \in OrderBy(Available(products), above) :
             LET page == Limit(Offset(q, offset), limit)
             IN Answers([op |-> "getProducts", limit |-> limit, offset |-> offset,
                         rows |-> page,
                         fetched |-> IF offset = 0 THEN page ELSE last.fetched \o page,
                         done |-> Len(page) < limit])

\* ----------------------------------------------------- getUserConversations
\* where sender_id = userId or receiver_id = userId
MessagesOf(ms, userId) ==
    {m \in DOMAIN ms : ms[m].senderId = userId \/ ms[m].receiverId = userId}

\* orderBy(desc(messages.createdAt))
LaterAbove(ms, a, b) == ms[a].createdAt > ms[b].createdAt

\* message.senderId === userId ? message.receiverId : message.senderId
OtherUserId(ms, userId, m) ==
    IF ms[m].senderId = userId THEN ms[m].receiverId ELSE ms[m].senderId

\* a count that leaves out the isRead condition
MutUnreadCount(ms, otherUserId, userId) ==
    Cardinality({m \in DOMAIN ms : /\ ms[m].senderId = otherUserId
                                   /\ ms[m].receiverId = userId})

\* the count query run for each counterpart
UnreadCount(ms, otherUserId, userId) ==
    Cardinality({m \in DOMAIN ms : /\ ms[m].senderId = otherUserId
                                   /\ ms[m].receiverId = userId
                                   /\ ms[m].isRead = FALSE})

\* the loop over the messages in the order q: the values of conversationMap in
\* insertion order
RECURSIVE ConversationMap(_, _, _, _)
ConversationMap(ms, userId, q, has) ==
    IF q = << >> THEN << >>
    ELSE LET other == OtherUserId(ms, userId, Head(q))
         IN IF other \in has
            THEN ConversationMap(ms, userId, Tail(q), has)
            ELSE <<[user |-> other, lastMessage |-> Head(q),
                    unreadCount |-> UnreadCount(ms, other, userId)]>>
                 \o ConversationMap(ms, userId, Tail(q), has \cup {other})

getUserConversations(userId) ==
    LET above == {e \in (DOMAIN messages) \X (DOMAIN messages) :
                        LaterAbove(messages, e[1], e[2])}
    IN \E q \in OrderBy(MessagesOf(messages, userId), above) :
          Answers([op |-> "getUserConversations", userId |-> userId,
                   rows |-> ConversationMap(messages, userId, q, {})])

\* ---------------------------------------------------- specification: follows
NextFollows ==
    /\ nops < MaxOps
    /\ \/ \E id \in UserIds : upsertUser(id)
       \/ \E a, b \in UserIds : followUser(a, b)
       \/ \E a, b \in UserIds : unfollowUser(a, b)

SpecFollows == Init /\ [][NextFollows]_vars

\* ------------------------------------------------------ specification: likes
NextLikes ==
    /\ nops < MaxOps
    /\ \/ \E id \in UserIds : upsertUser(id)
       \/ \E u \in UserIds : createProduct(u)
       \/ \E u \in UserIds, p \in ProductIds : likeProduct(u, p)
       \/ \E u \in UserIds, p \in ProductIds : unlikeProduct(u, p)

SpecLikes == Init /\ [][NextLikes]_vars

\* ------------------------------------------------------ specification: edges
NextEdges ==
    /\ nops < MaxOps
    /\ \/ \E id \in UserIds : upsertUser(id)
       \/ \E u \in UserIds : createProduct(u)
       \/ \E a, b \in UserIds : followUser(a, b)
       \/ \E u \in UserIds, p \in ProductIds : likeProduct(u, p)
       \/ \E u \in UserIds, p \in ProductIds : bookmarkProduct(u, p)

SpecEdges == Init /\ [][NextEdges]_vars

\* ------------------------------------------------------- specification: cart
NextCart ==
    /\ nops < MaxOps
    /\ \/ \E id \in UserIds : upsertUser(id)
       \/ \E u \in UserIds : createProduct(u)
       \/ \E u \in UserIds, p \in ProductIds, q \in Quantities : postCart(u, p, q)

SpecCart == Init /\ [][NextCart]_vars

\* --------------------------------------------------- specification: comments
NextComments ==
    /\ nops < MaxOps
    /\ \/ \E id \in UserIds : upsertUser(id)
       \/ \E u \in UserIds : createProduct(u)
       \/ \E u \in UserIds, p \in ProductIds, c \in RowIds \cup {NoId} :
             createComment(u, p, c)
       \/ \E id \in UserIds : deleteUser(id)

SpecComments == Init /\ [][NextComments]_vars

\* ---------------------------------------------------- specification: cascade
\* every table filled through the facade, and users deleted
NextCascade ==
    /\ nops < MaxOps
    /\ \/ \E id \in UserIds : upsertUser(id)
       \/ \E u \in UserIds : createProduct(u)
       \/ \E u \in UserIds : createVroom(u)
       \/ \E a, b \in UserIds : followUser(a, b)
       \/ \E u \in UserIds, v \in RowIds : followVroom(u, v)
       \/ \E u \in UserIds, p \in ProductIds : likeProduct(u, p)
       \/ \E u \in UserIds, p \in ProductIds : bookmarkProduct(u, p)
       \/ \E u \in UserIds, p \in ProductIds, c \in RowIds \cup {NoId} :
             createComment(u, p, c)
       \/ \E u \in UserIds, p \in ProductIds : postCart(u, p, 1)
       \/ \E b, s \in UserIds, p \in ProductIds : createOrder(b, s, p, "pending")
       \/ \E a, b \in UserIds, o \in RowIds \cup {NoId} : sendMessage(a, b, o)
       \/ \E id \in UserIds : deleteUser(id)

SpecCascade == Init /\ [][NextCascade]_vars

\* ----------------------------------------------------- specification: orders
NextOrders ==
    /\ nops < MaxOrderOps
    /\ \/ \E id \in UserIds : upsertUser(id)
       \/ \E u \in UserIds : createProduct(u)
       \/ \E b, s \in UserIds, p \in ProductIds, st \in BodyStatuses :
             postOrder(b, s, p, st)
       \/ \E o \in RowIds, st \in BodyStatuses : updateOrderStatus(o, st)

SpecOrders == Init /\ [][NextOrders]_vars

\* --------------------------------------------------- specification: trending
TrendingRows ==
    {ProductRow(av, l, v, 1, << >>, <<"a">>, <<"a">>) :
        av \in BOOLEAN, l \in Counts, v \in Counts}

InitTrending ==
    \E n \in 0..MaxCatalog :
        \E pr \in [CatalogIds(n) -> TrendingRows] : Seeded(pr, NoEdges, NoEdges, << >>)

NextTrending == \E limit \in Limits : getTrendingProducts(limit)

SpecTrending == InitTrending /\ [][NextTrending]_vars

\* ------------------------------------------------ specification: recommended
TaggedRows ==
    {ProductRow(av, l, 0, 1, tags, <<"a">>, <<"a">>) :
        av \in BOOLEAN, l \in Counts, tags \in TagLists}

\* no row, or one row of user 1 for one of the products
OneEdge(n) ==
    {NoEdges} \cup {[NoEdges EXCEPT ![<<1, p>>] = 1] : p \in CatalogIds(n)}

InitRecommended ==
    \E n \in 0..MaxTagged :
        \E pr \in [CatalogIds(n) -> TaggedRows], pl \in OneEdge(n), pb \in OneEdge(n) :
            Seeded(pr, pl, pb, << >>)

NextRecommended == \E limit \in Limits : getRecommendedProducts(1, limit)

SpecRecommended == InitRecommended /\ [][NextRecommended]_vars

\* ----------------------------------------------------- specification: search
SearchRows ==
    {ProductRow(av, 0, 0, t, tags, title, description) :
        av \in BOOLEAN, t \in Times, tags \in TagLists, title \in Titles,
        description \in Descriptions}

InitSearch ==
    \E n \in 0..MaxTagged :
        \E pr \in [CatalogIds(n) -> SearchRows] : Seeded(pr, NoEdges, NoEdges, << >>)

NextSearch == \E query \in Queries, hashtags \in TagLists : searchProducts(query, hashtags)

SpecSearch == InitSearch /\ [][NextSearch]_vars

\* --------------------------------------------------- specification: hashtags
HashtagRows ==
    {ProductRow(av, 0, 0, 1, tags, <<"a">>, <<"a">>) :
        av \in BOOLEAN, tags \in CountedTagLists}

InitHashtags ==
    \E n \in 0..MaxCatalog :
        \E pr \in [CatalogIds(n) -> HashtagRows] : Seeded(pr, NoEdges, NoEdges, << >>)

NextHashtags == \E limit \in Limits : getTrendingHashtags(limit)

SpecHashtags == InitHashtags /\ [][NextHashtags]_vars

\* ------------------------------------------------------ specification: pages
PagedRows ==
    {ProductRow(av, 0, 0, t, << >>, <<"a">>, <<"a">>) : av \in BOOLEAN, t \in Times}

InitPages ==
    \E n \in 0..MaxCatalog :
        \E pr \in [CatalogIds(n) -> PagedRows] : Seeded(pr, NoEdges, NoEdges, << >>)

NextPages ==
    \E limit \in Limits \ {0}, offset \in 0..(MaxCatalog + MaxLimit) :
        getProducts(limit, offset)

SpecPages == InitPages /\ [][NextPages]_vars

\* ---------------------------------------------- specification: conversations
MessageRows ==
    [senderId : UserIds, receiverId : UserIds, orderId : {NoId}, isRead : BOOLEAN,
     createdAt : Times]

InitConversations ==
    \E n \in 0..MaxMessages :
        \E ms \in [1..n -> MessageRows] : Seeded(<< >>, NoEdges, NoEdges, ms)

NextConversations == \E u \in UserIds : getUserConversations(u)

SpecConversations == InitConversations /\ [][NextConversations]_vars

\* ------------------------------------------------------ specification: views
NextViews ==
    \/ /\ nops < MaxViewOps
       /\ \/ \E id \in UserIds : upsertUser(id)
          \/ \E u \in UserIds : createProduct(u)
          \/ \E p \in ProductIds : deleteProduct(p)
    \/ \E r \in Requests, p \in ProductIds : getProductRead(r, p)
    \/ \E r \in Requests : getProductIncrement(r)

SpecViews == Init /\ [][NextViews]_vars

\* ===================================================================== claims

\* C2: after any sequence of likeProduct and unlikeProduct calls, each
\* product's likesCount equals the number of product_likes rows of the product.
C2_LikesCountEqualsLikeRows ==
    \A p \in DOMAIN products : products[p].likesCount = LikeRows(productLikes, p)

\* C3: likeProduct(u, p) immediately followed by unlikeProduct(u, p) leaves
\* the product's likesCount at its value before the likeProduct call and
\* leaves no like row from u to p.
C3_LikeThenUnlikeRestores ==
    (last.op = "unlikeProduct" /\ last.afterLike) =>
        /\ last.productId \in DOMAIN products
        /\ products[last.productId].likesCount = last.beforeLike
        /\ ~isProductLiked(last.userId, last.productId)

\* the pair was liked and unliked back to back on a product that carried a like
C3_Witness ==
    /\ last.op = "unlikeProduct"
    /\ last.afterLike
    /\ last.beforeLike >= 1
    /\ last.deleted = 2

\* C4: isFollowingUser(a, b) is true right after followUser(a, b) returns and
\* false right after unfollowUser(a, b) returns, whatever calls came before.
C4_IsFollowingTracksLastCall ==
    /\ (last.op = "followUser") =>
           isFollowingUser(last.followerId, last.followingId)
    /\ (last.op = "unfollowUser") =>
           ~isFollowingUser(last.followerId, last.followingId)

\* unfollowUser has just removed a pair that had been followed twice
C4_Witness ==
    /\ last.op = "unfollowUser"
    /\ last.deleted = 2
    /\ ~isFollowingUser(last.followerId, last.followingId)

\* C5: after any sequence of followUser and unfollowUser calls, every user's
\* followersCount and followingCount equal the numbers of follows rows that
\* point to and from the user.
C5_FollowCountsEqualRows ==
    \A u \in DOMAIN users :
        /\ users[u].followersCount = FollowerRows(follows, u)
        /\ users[u].followingCount = FollowingRows(follows, u)

\* a user followed twice by the same follower, and someone who follows nobody
C5_Witness ==
    /\ \E a, b \in DOMAIN users :
          a # b /\ follows[<<a, b>>] = 2 /\ users[b].followersCount = 2
                /\ users[b].followingCount = 0 /\ users[a].followingCount = 2

\* C6: there is at most one follows row per (followerId, followingId), one
\* product_likes row and one product_bookmarks row per (userId, productId).
C6_AtMostOneRowPerPair ==
    /\ \A e \in DOMAIN follows : follows[e] <= 1
    /\ \A e \in DOMAIN productLikes : productLikes[e] <= 1
    /\ \A e \in DOMAIN productBookmarks : productBookmarks[e] <= 1

\* C1: addToCart for (u, p) with quantity q1 on a cart without the pair, then
\* again with q2, leaves exactly one cart row for (u, p), its quantity q1 + q2;
\* the second call returns that row and inserts none.
C1_SecondAddMerges ==
    (last.op = "addToCart" /\ last.afterInsert) =>
        LET rows == CartRows(cartItems, last.userId, last.productId) IN
        /\ ~last.inserted
        /\ Cardinality(rows) = 1
        /\ \A id \in rows :
              /\ cartItems[id].quantity = last.firstQuantity + last.quantity
              /\ last.ret = [id |-> id, quantity |-> cartItems[id].quantity]

\* a second addToCart of a pair has just merged two different quantities while
\* the cart holds another row too
C1_Witness ==
    /\ last.op = "addToCart"
    /\ last.afterInsert
    /\ last.firstQuantity # last.quantity
    /\ Cardinality(DOMAIN cartItems) = 2
    /\ \E id \in DOMAIN cartItems : cartItems[id].quantity = 3

\* C7: a createComment call, top-level or reply, inserts exactly one comment
\* row, adds exactly 1 to the commentsCount of the comment's product and
\* changes no other product's commentsCount.
C7_CreateCommentCountsOnce ==
    (last.op = "createComment") =>
        /\ last.id \notin last.rowsBefore
        /\ DOMAIN comments = last.rowsBefore \cup {last.id}
        /\ comments[last.id] = [userId |-> last.userId, productId |-> last.productId,
                                parentId |-> last.parentId]
        /\ DOMAIN products = DOMAIN last.countsBefore
        /\ \A p \in DOMAIN products :
              products[p].commentsCount =
                  last.countsBefore[p] + (IF p = last.productId THEN 1 ELSE 0)

\* a reply has just been created while two products exist
C7_Witness ==
    /\ last.op = "createComment"
    /\ last.parentId # NoId
    /\ Cardinality(DOMAIN products) = 2
    /\ products[last.productId].commentsCount = 2

\* C8: each product's commentsCount equals the number of comment rows of the
\* product, after any createComment calls and cascade deletions.
C8_CommentsCountEqualsCommentRows ==
    \A p \in DOMAIN products :
        products[p].commentsCount = Cardinality(CommentRows(comments, p))

\* C9: every GET /api/products/:id answered 200 has added exactly 1 to the
\* product's viewsCount and a 404 has added nothing, so the viewsCount of a
\* product is the number of its requests answered 200, however they interleave.
C9_ViewsCountEqualsServed ==
    \A p \in DOMAIN products : products[p].viewsCount = served[p]

\* two requests for one product both read it before either incremented, and
\* a third was answered 404
C9_Witness ==
    \E r1, r2, r3 \in Requests :
        /\ r1 # r2
        /\ requests[r1].pc = "200" /\ requests[r2].pc = "200"
        /\ requests[r1].productId = requests[r2].productId
        /\ requests[r1].seen = 0 /\ requests[r2].seen = 0
        /\ requests[r1].productId \in DOMAIN products
        /\ products[requests[r1].productId].viewsCount = 2
        /\ requests[r3].pc = "404"

\* no row of any table names the user
NoRowNames(id) ==
    /\ \A p \in DOMAIN products : products[p].userId # id
    /\ \A v \in DOMAIN vrooms : vrooms[v].userId # id
    /\ \A e \in DOMAIN follows : (e[1] = id \/ e[2] = id) => follows[e] = 0
    /\ \A e \in DOMAIN vroomFollows : e[1] = id => vroomFollows[e] = 0
    /\ \A e \in DOMAIN productLikes : e[1] = id => productLikes[e] = 0
    /\ \A e \in DOMAIN productBookmarks : e[1] = id => productBookmarks[e] = 0
    /\ \A c \in DOMAIN comments : comments[c].userId # id
    /\ \A c \in DOMAIN cartItems : cartItems[c].userId # id
    /\ \A o \in DOMAIN orders : orders[o].buyerId # id /\ orders[o].sellerId # id
    /\ \A m \in DOMAIN messages : messages[m].senderId # id /\ messages[m].receiverId # id

\* every reference of every row is to a row that exists
NoDanglingReference ==
    /\ \A p \in DOMAIN products : products[p].userId \in DOMAIN users
    /\ \A v \in DOMAIN vrooms : vrooms[v].userId \in DOMAIN users
    /\ \A e \in DOMAIN follows :
          follows[e] > 0 => e[1] \in DOMAIN users /\ e[2] \in DOMAIN users
    /\ \A e \in DOMAIN vroomFollows :
          vroomFollows[e] > 0 => e[1] \in DOMAIN users /\ e[2] \in DOMAIN vrooms
    /\ \A e \in DOMAIN productLikes :
          productLikes[e] > 0 => e[1] \in DOMAIN users /\ e[2] \in DOMAIN products
    /\ \A e \in DOMAIN productBookmarks :
          productBookmarks[e] > 0 => e[1] \in DOMAIN users /\ e[2] \in DOMAIN products
    /\ \A c \in DOMAIN comments :
          /\ comments[c].userId \in DOMAIN users
          /\ comments[c].productId \in DOMAIN products
          /\ comments[c].parentId \in DOMAIN comments \cup {NoId}
    /\ \A c \in DOMAIN cartItems :
          /\ cartItems[c].userId \in DOMAIN users
          /\ cartItems[c].productId \in DOMAIN products
    /\ \A o \in DOMAIN orders :
          /\ orders[o].buyerId \in DOMAIN users
          /\ orders[o].sellerId \in DOMAIN users
          /\ orders[o].productId \in DOMAIN products
    /\ \A m \in DOMAIN messages :
          /\ messages[m].senderId \in DOMAIN users
          /\ messages[m].receiverId \in DOMAIN users
          /\ messages[m].orderId \in DOMAIN orders \cup {NoId}

\* C10: after a user row is deleted no row of any table references the user,
\* nor a product, vroom, comment or order the cascade removed.
C10_DeleteUserLeavesNoReference ==
    (last.op = "deleteUser") =>
        /\ last.userId \notin DOMAIN users
        /\ NoRowNames(last.userId)
        /\ NoDanglingReference

\* the deletion took an order placed between other users on the user's
\* product, and a message between other users about that order
C10_Witness ==
    /\ last.op = "deleteUser"
    /\ last.through.orders # {}
    /\ last.through.messages # {}


\* the moves the order lifecycle allows
AllowedTransitions ==
    {<<"pending", "confirmed">>, <<"confirmed", "shipped">>,
     <<"shipped", "delivered">>, <<"pending", "cancelled">>,
     <<"confirmed", "cancelled">>}

\* C11: whenever a step changes the status of an order, the change is pending
\* to confirmed, confirmed to shipped, shipped to delivered, or pending or
\* confirmed to cancelled.
C11_StatusMovesForwardOnly ==
    [][\A o \in DOMAIN orders \cap DOMAIN orders' :
          orders[o].status # orders'[o].status =>
              <<orders[o].status, orders'[o].status>> \in AllowedTransitions]_vars

\* C12: every order's status is one of pending, confirmed, shipped,
\* delivered, cancelled, whatever bodies created and updated it.
C12_StatusInFixedSet ==
    \A o \in DOMAIN orders : orders[o].status \in OrderStatuses

\* C13: every order's sellerId is the userId of the product the order
\* references.
C13_SellerOwnsProduct ==
    \A o \in DOMAIN orders : orders[o].sellerId = products[orders[o].productId].userId


\* C14: getTrendingProducts(n) returns at most n products, all available, with
\* likesCount non-increasing and viewsCount non-increasing among equal
\* likesCount, and no available product left out ranks strictly above a
\* returned one in (likesCount, viewsCount).
C14_TrendingIsTopN ==
    (last.op = "getTrendingProducts") =>
        LET rows == last.rows
            returned == {rows[i] : i \in 1..Len(rows)}
        IN /\ Len(rows) <= last.limit
           /\ returned \subseteq Available(products)
           /\ \A i, j \in 1..Len(rows) : i < j =>
                 \/ products[rows[i]].likesCount > products[rows[j]].likesCount
                 \/ /\ products[rows[i]].likesCount = products[rows[j]].likesCount
                    /\ products[rows[i]].viewsCount >= products[rows[j]].viewsCount
           /\ \A o \in Available(products) \ returned : \A r \in returned :
                 ~ \/ products[o].likesCount > products[r].likesCount
                   \/ /\ products[o].likesCount = products[r].likesCount
                      /\ products[o].viewsCount > products[r].viewsCount

\* one of two available products with equal likes was returned, the one with
\* more views, and an unavailable product with more likes was passed over
C14_Witness ==
    /\ last.op = "getTrendingProducts"
    /\ last.limit = 1
    /\ Len(last.rows) = 1
    /\ \E o \in Available(products) \ {last.rows[1]} :
          /\ products[o].likesCount = products[last.rows[1]].likesCount
          /\ products[o].viewsCount < products[last.rows[1]].viewsCount
    /\ \E p \in DOMAIN products \ Available(products) :
          products[p].likesCount > products[last.rows[1]].likesCount


\* C15: for a user without product_likes and product_bookmarks rows,
\* getRecommendedProducts(userId, limit) answers as getTrendingProducts(limit)
\* does over the same tables.
C15_RecommendedFallsBackToTrending ==
    (/\ last.op = "getRecommendedProducts"
     /\ \A p \in ProductIds : /\ productLikes[<<last.userId, p>>] = 0
                              /\ productBookmarks[<<last.userId, p>>] = 0) =>
        /\ ~last.threw
        /\ last.rows \in TrendingResults(products, last.limit)

\* the user has no like and no bookmark, and the answer stopped at the limit
\* with an available product left out
C15_Witness ==
    /\ last.op = "getRecommendedProducts"
    /\ InteractedProductIds(productLikes, productBookmarks, last.userId) = {}
    /\ Len(last.rows) = 1
    /\ Cardinality(Available(products)) = 2
    /\ \E p \in Available(products) :
          products[p].likesCount < products[last.rows[1]].likesCount

\* C16: for a user with a liked or bookmarked product that carries a hashtag,
\* getRecommendedProducts(userId, limit) returns at most limit products, each
\* available and sharing a hashtag with the hashtags of the user's liked and
\* bookmarked products, in non-increasing likesCount order.
C16_RecommendedSharesHashtags ==
    (/\ last.op = "getRecommendedProducts"
     /\ UserHashtags(products, InteractedProductIds(productLikes, productBookmarks,
                                                    last.userId)) # {}) =>
        LET rows == last.rows
            tags == UserHashtags(products,
                        InteractedProductIds(productLikes, productBookmarks, last.userId))
        IN /\ ~last.threw
           /\ Len(rows) <= last.limit
           /\ \A i \in 1..Len(rows) :
                 /\ rows[i] \in Available(products)
                 /\ Range(products[rows[i]].hashtags) \cap tags # {}
           /\ \A i, j \in 1..Len(rows) : i < j =>
                 products[rows[i]].likesCount >= products[rows[j]].likesCount


\* whether the text contains the query, ignoring case
ContainsIgnoringCase(text, query) ==
    \E i \in 0..Len(text) :
        /\ i + Len(query) <= Len(text)
        /\ \A k \in 1..Len(query) : Lower(text[i + k]) = Lower(query[k])

\* C17: searchProducts(query, hashtags) returns exactly the available
\* products whose title or description contains query ignoring case and, when
\* hashtags is a non-empty list, whose hashtags share an element with it, each
\* once, newest first.
C17_SearchReturnsExactMatches ==
    (last.op = "searchProducts") =>
        LET rows == last.rows IN
        /\ ~last.threw
        /\ Range(rows) =
              {p \in Available(products) :
                  /\ \/ ContainsIgnoringCase(products[p].title, last.query)
                     \/ ContainsIgnoringCase(products[p].description, last.query)
                  /\ \/ Len(last.hashtags) = 0
                     \/ Range(products[p].hashtags) \cap Range(last.hashtags) # {}}
        /\ Cardinality(Range(rows)) = Len(rows)
        /\ \A i, j \in 1..Len(rows) : i < j =>
              products[rows[i]].createdAt >= products[rows[j]].createdAt


\* the occurrences of a hashtag in the hashtag lists of the available products
Occurrences(hashtag) ==
    SumOver([p \in Available(products) |->
                Cardinality({i \in 1..Len(products[p].hashtags) :
                                products[p].hashtags[i] = hashtag})],
            Available(products))

\* the distinct hashtags on available products
LiveHashtags == UNION {Range(products[p].hashtags) : p \in Available(products)}

\* C18: getTrendingHashtags(limit) returns min(limit, number of distinct
\* hashtags on available products) entries, each with the count of its
\* hashtag's occurrences on available products, counts non-increasing, and no
\* hashtag left out has a higher count than a returned one.
C18_TrendingHashtagsCounts ==
    (last.op = "getTrendingHashtags") =>
        LET rows == last.rows
            distinct == Cardinality(LiveHashtags)
            returned == {rows[i].hashtag : i \in 1..Len(rows)}
        IN /\ Len(rows) = (IF last.limit < distinct THEN last.limit ELSE distinct)
           /\ Cardinality(returned) = Len(rows)
           /\ \A i \in 1..Len(rows) :
                 /\ rows[i].hashtag \in LiveHashtags
                 /\ rows[i].count = Occurrences(rows[i].hashtag)
           /\ \A i, j \in 1..Len(rows) : i < j => rows[i].count >= rows[j].count
           /\ \A h \in LiveHashtags \ returned : \A i \in 1..Len(rows) :
                 Occurrences(h) <= rows[i].count

\* a hashtag counted twice leads, one that an unavailable product carries too
\* comes after with its available occurrence only, and a third is cut off
C18_Witness ==
    /\ last.op = "getTrendingHashtags"
    /\ Len(last.rows) = 2
    /\ last.rows[1].count = 2
    /\ last.rows[2].count = 1
    /\ Cardinality(LiveHashtags) = 3
    /\ \E p \in DOMAIN products \ Available(products) :
          last.rows[2].hashtag \in Range(products[p].hashtags)


\* C19: the pages getProducts(limit, 0), getProducts(limit, limit), ... over an
\* unchanged table hold every available product exactly once, in
\* non-increasing createdAt order, also when products share a createdAt.
C19_PagesCoverEachProductOnce ==
    (last.op = "getProducts" /\ last.done) =>
        /\ Range(last.fetched) = Available(products)
        /\ Len(last.fetched) = Cardinality(Available(products))
        /\ \A i, j \in 1..Len(last.fetched) : i < j =>
              products[last.fetched[i]].createdAt >= products[last.fetched[j]].createdAt


\* the messages exchanged by two users, either way
Between(u, c) ==
    {m \in DOMAIN messages :
        \/ messages[m].senderId = u /\ messages[m].receiverId = c
        \/ messages[m].senderId = c /\ messages[m].receiverId = u}

\* C20: getUserConversations(u) returns one entry per counterpart with whom u
\* has exchanged a message; the entry's lastMessage is a message of the two
\* with the greatest createdAt and its unreadCount is the number of unread
\* messages the counterpart sent to u.
C20_OneEntryPerCounterpart ==
    (last.op = "getUserConversations") =>
        LET rows == last.rows
            u == last.userId
        IN /\ {rows[i].user : i \in 1..Len(rows)} = {c \in UserIds : Between(u, c) # {}}
           /\ \A i, j \in 1..Len(rows) : i # j => rows[i].user # rows[j].user
           /\ \A i \in 1..Len(rows) :
                 /\ rows[i].lastMessage \in Between(u, rows[i].user)
                 /\ \A m \in Between(u, rows[i].user) :
                       messages[m].createdAt <= messages[rows[i].lastMessage].createdAt
                 /\ rows[i].unreadCount =
                       Cardinality({m \in DOMAIN messages :
                                       /\ messages[m].senderId = rows[i].user
                                       /\ messages[m].receiverId = u
                                       /\ ~messages[m].isRead})

\* the user has an older unread message from the counterpart and a newer one
\* they sent themselves, folded into one entry with unreadCount 1
C20_Witness ==
    /\ last.op = "getUserConversations"
    /\ Len(last.rows) = 1
    /\ last.rows[1].user # last.userId
    /\ last.rows[1].unreadCount = 1
    /\ messages[last.rows[1].lastMessage].senderId = last.userId
    /\ Cardinality(Between(last.userId, last.rows[1].user)) = 2


\* ============================================ PUT, DELETE /api/products/:id
\* the routes of a product that change it
ProductRoutes == {"PUT /api/products/:id", "DELETE /api/products/:id"}

\* the columns insertProductSchema keeps, of those the model carries; zod
\* drops every other key of the body
InsertProductColumns == {"userId", "title", "description", "hashtags", "isAvailable"}

\* insertProductSchema.partial().parse(req.body): any subset of the insert
\* columns
ParsePartial(body) == [k \in DOMAIN body \cap InsertProductColumns |-> body[k]]

\* bodies of a PUT: a new title with a counter, or a user id (NoId: one that
\* is the id of no user)
PutBodies ==
    {[title |-> <<"c">>, likesCount |-> 1]}
        \cup {[userId |-> u] : u \in UserIds \cup {NoId}}

\* a check of existence only
MutNotAuthorized(existingProduct, userId) == existingProduct = << >>

\* !existingProduct || existingProduct.userId !== userId; existingProduct is
\* the list of the rows getProduct selected, one or none
NotAuthorized(existingProduct, userId) ==
    existingProduct = << >> \/ existingProduct[1].userId # userId

\* storage.getProduct: the rows with the id
getProduct(id) == IF id \in DOMAIN products THEN <<products[id]>> ELSE << >>

\* what the handler has when it answers: the caller, the id, and whether
\* getProduct gave it a row and whose
RouteCall(route, userId, id, existed, owner, status) ==
    [op |-> route, caller |-> userId, productId |-> id, existed |-> existed,
     owner |-> owner, status |-> status]

\* a handler answers: `last` holds the request and the status
Responds(call) == last' = call /\ UNCHANGED nops

\* updateProduct: update ... where id = ... returning; the columns of
\* productData replace the row's
updateProduct(pr, id, productData) ==
    IF id \in DOMAIN pr THEN [pr EXCEPT ![id] = productData @@ @] ELSE pr

\* PUT /api/products/:id: 403 and nothing else when the ownership check
\* fails; then parse and updateProduct, 404 when no row came back and 200
\* otherwise; a userId that is no user's breaks the foreign key and the catch
\* answers 400
putProductRoute(userId, id, body) ==
    LET existingProduct == getProduct(id)
        existed == existingProduct # << >>
        owner == IF existed THEN existingProduct[1].userId ELSE NoId
        productData == ParsePartial(body)
        call(status) == RouteCall("PUT /api/products/:id", userId, id, existed,
                                  owner, status)
    IN /\ IF NotAuthorized(existingProduct, userId)
          THEN Responds(call(403)) /\ UNCHANGED products
          ELSE IF "userId" \in DOMAIN productData /\ productData.userId \notin DOMAIN users
          THEN Responds(call(400)) /\ UNCHANGED products
          ELSE /\ products' = updateProduct(products, id, productData)
               /\ Responds(call(IF id \in DOMAIN products THEN 200 ELSE 404))
       /\ UNCHANGED <<users, vrooms, follows, vroomFollows, productLikes,
                      productBookmarks, comments, cartItems, orders, messages,
                      nextId, requests, served>>

\* DELETE /api/products/:id: the same check, then deleteProduct and 204
deleteProductRoute(userId, id) ==
    LET existingProduct == getProduct(id)
        existed == existingProduct # << >>
        owner == IF existed THEN existingProduct[1].userId ELSE NoId
        call(status) == RouteCall("DELETE /api/products/:id", userId, id, existed,
                                  owner, status)
    IN /\ IF NotAuthorized(existingProduct, userId)
          THEN Responds(call(403)) /\ UNCHANGED tables
          ELSE /\ cascade({}, {id})
               /\ Responds(call(204))
               /\ UNCHANGED nextId
       /\ UNCHANGED <<requests, served>>

\* --------------------------------------------- specification: product routes
\* products as their owners listed them, one of them bookmarked or none
ListedRows ==
    {[ProductRow(TRUE, 0, 0, 1, << >>, <<"a">>, <<"a">>) EXCEPT !.userId = u] :
        u \in UserIds}

InitProductRoutes ==
    \E n \in 0..MaxProducts :
        \E pr \in [CatalogIds(n) -> ListedRows], pb \in OneEdge(n) :
            Seeded(pr, NoEdges, pb, << >>)

NextProductRoutes ==
    \/ \E u \in UserIds, p \in ProductIds, body \in PutBodies : putProductRoute(u, p, body)
    \/ \E u \in UserIds, p \in ProductIds : deleteProductRoute(u, p)

SpecProductRoutes == InitProductRoutes /\ [][NextProductRoutes]_vars

\* C21: a PUT or DELETE /api/products/:id whose id matches no product is
\* answered 404 (and changes no stored state).
C21_MissingProductAnswers404 ==
    (last.op \in ProductRoutes /\ ~last.existed) => last.status = 404

\* C24: a PUT or DELETE /api/products/:id by a user who is not the owner of
\* the product is answered 403, the step that answers 403 changes no table,
\* and a step changes or removes a product row only as a request for that
\* product by the user who owned it.
C24_OnlyOwnerUpdatesOrDeletes ==
    /\ []((last.op \in ProductRoutes /\ last.existed /\ last.owner # last.caller)
             => last.status = 403)
    /\ [][(/\ last' # last
           /\ last'.op \in ProductRoutes
           /\ last'.status = 403) => tables' = tables]_vars
    /\ [][\A p \in DOMAIN products :
             (p \notin DOMAIN products' \/ products'[p] # products[p]) =>
                 /\ last'.op \in ProductRoutes
                 /\ last'.status \in {200, 204}
                 /\ last'.productId = p
                 /\ last'.existed
                 /\ last'.caller = last'.owner]_vars

\* a user has just been refused the deletion of a product of someone else,
\* which carries a bookmark
C24_Witness ==
    /\ last.op = "DELETE /api/products/:id"
    /\ last.status = 403
    /\ last.productId \in DOMAIN products
    /\ products[last.productId].userId # last.caller
    /\ \E u \in UserIds : productBookmarks[<<u, last.productId>>] > 0

\* C25: the userId of a product never changes, whatever the body of a PUT
\* /api/products/:id.
C25_OwnerNeverChanges ==
    [][\A p \in DOMAIN products \cap DOMAIN products' :
          products'[p].userId = products[p].userId]_vars


\* ================================================ addToCart, interleaved
\* Calls of addToCart run as separate requests whose statements interleave:
\* nothing in the method or the schema ties its select to its write (no
\* transaction, no unique key on cart_items (user_id, product_id)).

\* the select of addToCart: the first of the rows of the pair, any of them
\* when there are several, none when there is none
addToCartSelect(r, userId, productId, quantity) ==
    /\ requests[r].pc = "idle"
    /\ \E existingItem \in
            IF CartRows(cartItems, userId, productId) = {} THEN {<< >>}
            ELSE {<<[id |-> id, quantity |-> cartItems[id].quantity]>> :
                     id \in CartRows(cartItems, userId, productId)} :
          requests' = [requests EXCEPT ![r] =
                          [pc |-> "selected", productId |-> productId,
                           userId |-> userId, quantity |-> quantity,
                           existingItem |-> existingItem]]
    /\ UNCHANGED <<tables, served, last, nops>>

\* the branch on existingItem: the update of the row by its id with the
\* quantity computed from the row as selected, or the insert of a new row
\* (POST /api/cart answers 400 when the insert throws)
addToCartWrite(r) ==
    /\ requests[r].pc = "selected"
    /\ LET existingItem == requests[r].existingItem
           userId == requests[r].userId
           productId == requests[r].productId
       IN IF existingItem # << >>
          THEN /\ cartItems' =
                     IF existingItem[1].id \in DOMAIN cartItems
                     THEN [cartItems EXCEPT ![existingItem[1].id].quantity =
                              MergedQuantity(existingItem[1].quantity,
                                             requests[r].quantity)]
                     ELSE cartItems
               /\ requests' = [requests EXCEPT ![r].pc = "201"]
               /\ UNCHANGED nextId
          ELSE IF userId \in DOMAIN users /\ productId \in DOMAIN products
          THEN /\ nextId.cartItems \in RowIds
               /\ cartItems' = With(cartItems, nextId.cartItems,
                                    [userId |-> userId, productId |-> productId,
                                     quantity |-> requests[r].quantity])
               /\ nextId' = [nextId EXCEPT !.cartItems = @ + 1]
               /\ requests' = [requests EXCEPT ![r].pc = "201"]
          ELSE /\ requests' = [requests EXCEPT ![r].pc = "400"]
               /\ UNCHANGED <<cartItems, nextId>>
    /\ UNCHANGED <<users, products, vrooms, follows, vroomFollows, productLikes,
                   productBookmarks, comments, orders, messages, served, last, nops>>

\* ------------------------------------------------- specification: cart race
InitCartRace ==
    \E n \in 0..MaxProducts :
        \E pr \in [CatalogIds(n) -> ListedRows] : Seeded(pr, NoEdges, NoEdges, << >>)

NextCartRace ==
    \/ \E r \in Requests, u \in UserIds, p \in ProductIds, q \in Quantities :
          addToCartSelect(r, u, p, OrOne(q))
    \/ \E r \in Requests : addToCartWrite(r)

SpecCartRace == InitCartRace /\ [][NextCartRace]_vars

\* the requests of a pair that were answered 201
AddedToCart(userId, productId) ==
    {r \in Requests : /\ requests[r].pc = "201"
                      /\ requests[r].userId = userId
                      /\ requests[r].productId = productId}

\* C22: once addToCart calls for the same (user, product) pair have all
\* completed, however their selects and writes interleaved, the pair has
\* exactly one cart row and its quantity is the sum of the requested amounts.
C22_InterleavedAddsMerge ==
    (\A r \in Requests : requests[r].pc \in {"idle", "201", "400"}) =>
        \A u \in UserIds, p \in ProductIds :
            AddedToCart(u, p) # {} =>
                /\ Cardinality(CartRows(cartItems, u, p)) = 1
                /\ \A c \in CartRows(cartItems, u, p) :
                      cartItems[c].quantity =
                          SumOver([r \in Requests |-> requests[r].quantity],
                                  AddedToCart(u, p))


\* ===================================== followUser, unfollowUser, interleaved
\* Each call is a request that runs its statements one at a time: the insert
\* or delete of the edge, then updateUserStats(followerId) and
\* updateUserStats(followingId), each of them two count queries and one
\* update.  Statements of different requests interleave freely: there is no
\* transaction.
MaxRacers == 2
Racers == 1..MaxRacers

\* the argument of the updateUserStats call a request is in: the first is for
\* followerId, the second for followingId
StatsUser(request) ==
    IF request.stage = 1 THEN request.followerId ELSE request.followingId

\* the first statement of followUser (insert) or unfollowUser (delete)
followEdgeStatement(r, op, followerId, followingId) ==
    /\ requests[r].pc = "idle"
    /\ follows' = IF op = "followUser"
                  THEN InsertFollow(follows, followerId, followingId)
                  ELSE DeleteFollow(follows, followerId, followingId)
    /\ requests' = [requests EXCEPT ![r] =
                       [pc |-> "countFollowers", productId |-> NoId, op |-> op,
                        followerId |-> followerId, followingId |-> followingId,
                        stage |-> 1, followersCount |-> 0, followingCount |-> 0]]
    /\ UNCHANGED <<users, products, vrooms, vroomFollows, productLikes,
                   productBookmarks, comments, cartItems, orders, messages,
                   nextId, served, last, nops>>

\* updateUserStats(userId): select count() where followingId = userId
statsCountFollowers(r) ==
    /\ requests[r].pc = "countFollowers"
    /\ requests' = [requests EXCEPT
                       ![r].followersCount = FollowerRows(follows, StatsUser(requests[r])),
                       ![r].pc = "countFollowing"]
    /\ UNCHANGED <<tables, served, last, nops>>

\* updateUserStats(userId): select count() where followerId = userId
statsCountFollowing(r) ==
    /\ requests[r].pc = "countFollowing"
    /\ requests' = [requests EXCEPT
                       ![r].followingCount = FollowingRows(follows, StatsUser(requests[r])),
                       ![r].pc = "update"]
    /\ UNCHANGED <<tables, served, last, nops>>

\* updateUserStats(userId): the update, with the two counts as they were
\* read; after the second updateUserStats the call returns
statsUpdate(r) ==
    /\ requests[r].pc = "update"
    /\ users' = IF StatsUser(requests[r]) \in DOMAIN users
                THEN [users EXCEPT ![StatsUser(requests[r])] =
                         [followersCount |-> requests[r].followersCount,
                          followingCount |-> requests[r].followingCount]]
                ELSE users
    /\ requests' = IF requests[r].stage = 1
                   THEN [requests EXCEPT ![r].stage = 2, ![r].pc = "countFollowers"]
                   ELSE [requests EXCEPT ![r].pc = "returned"]
    /\ UNCHANGED <<products, vrooms, follows, vroomFollows, productLikes,
                   productBookmarks, comments, cartItems, orders, messages,
                   nextId, served, last, nops>>

\* ----------------------------------------------- specification: follow race
InitFollowRace == Seeded(<< >>, NoEdges, NoEdges, << >>)

NextFollowRace ==
    \/ \E r \in Racers, a, b \in UserIds :
          followEdgeStatement(r, "followUser", a, b)
    \/ \E r \in Racers, a, b \in UserIds :
          followEdgeStatement(r, "unfollowUser", a, b)
    \/ \E r \in Racers : statsCountFollowers(r)
    \/ \E r \in Racers : statsCountFollowing(r)
    \/ \E r \in Racers : statsUpdate(r)

SpecFollowRace == InitFollowRace /\ [][NextFollowRace]_vars

\* C23: once the followUser and unfollowUser calls have all completed,
\* however their statements interleaved, every user's followersCount and
\* followingCount equal the numbers of follows rows to and from the user.
C23_InterleavedFollowCounts ==
    (\A r \in Racers : requests[r].pc \in {"idle", "returned"}) =>
        \A u \in DOMAIN users :
            /\ users[u].followersCount = FollowerRows(follows, u)
            /\ users[u].followingCount = FollowingRows(follows, u)


\* ==================================================== the caller's identity
\* req.user.claims.sub: the user the requests below are authenticated as.
\* Bodies name any user; which user the caller is makes no difference.
Caller == 1

\* an object literal that spreads the body after the handler's own keys, so
\* that the body's values win
MutSpread(body, own) == body @@ own

\* { ...req.body, key: value }: the keys written after the spread replace the
\* body's
Spread(body, own) == own @@ body

\* the bodies, and each of them with the key set to each of the values
WithKey(bodies, key, values) ==
    bodies \cup {[k \in {key} |-> v] @@ b : b \in bodies, v \in values}

ProductBodies == WithKey({[title |-> <<"a">>]}, "userId", UserIds)

OrderBodies ==
    WithKey([sellerId : UserIds, productId : ProductIds, status : {Undefined}],
            "buyerId", UserIds)

MessageBodies ==
    WithKey([receiverId : UserIds, orderId : {NoId}], "senderId", UserIds)

CommentBodies ==
    WithKey(WithKey([parentId : RowIds \cup {NoId}], "userId", UserIds),
            "productId", ProductIds)

\* POST /api/products
postProduct(userId, body) ==
    LET productData == Spread(body, [userId |-> userId])
    IN createProduct(productData.userId)

\* POST /api/orders, with the whole body
postOrderBody(buyerId, body) ==
    LET orderData == Spread(body, [buyerId |-> buyerId])
    IN postOrder(orderData.buyerId, orderData.sellerId, orderData.productId,
                 orderData.status)

\* POST /api/messages
postMessage(senderId, body) ==
    LET messageData == Spread(body, [senderId |-> senderId])
    IN sendMessage(messageData.senderId, messageData.receiverId, messageData.orderId)

\* POST /api/products/:id/comments
postComment(userId, productId, body) ==
    LET commentData == Spread(body, [userId |-> userId, productId |-> productId])
    IN createComment(commentData.userId, commentData.productId, commentData.parentId)

\* ------------------------------------------------- specification: identity
NextIdentity ==
    /\ nops < MaxOps
    /\ \/ \E id \in UserIds : upsertUser(id)
       \/ \E body \in ProductBodies : postProduct(Caller, body)
       \/ \E body \in OrderBodies : postOrderBody(Caller, body)
       \/ \E body \in MessageBodies : postMessage(Caller, body)
       \/ \E p \in ProductIds, body \in CommentBodies : postComment(Caller, p, body)

SpecIdentity == Init /\ [][NextIdentity]_vars

\* C26: every product created by POST /api/products has the caller as
\* userId, every order created by POST /api/orders has the caller as buyerId,
\* every message created by POST /api/messages has the caller as senderId and
\* every comment created by POST /api/products/:id/comments has the caller as
\* userId, whatever the request bodies.
C26_RowsCarryTheCaller ==
    /\ \A p \in DOMAIN products : products[p].userId = Caller
    /\ \A o \in DOMAIN orders : orders[o].buyerId = Caller
    /\ \A m \in DOMAIN messages : messages[m].senderId = Caller
    /\ \A c \in DOMAIN comments : comments[c].userId = Caller

\* each of the four tables holds a row, and another user exists whom the
\* bodies could have named and to whom an order and a message go
C26_Witness ==
    /\ DOMAIN users = UserIds
    /\ DOMAIN products # {}
    /\ DOMAIN comments # {}
    /\ \E o \in DOMAIN orders : orders[o].sellerId # Caller
    /\ \E m \in DOMAIN messages : messages[m].receiverId # Caller


\* ============================= PUT /api/cart/:id, DELETE /api/cart/:id, /api/cart
CartRoutes == {"PUT /api/cart/:id", "DELETE /api/cart/:id", "DELETE /api/cart"}

\* updateCartItem: update cart_items set quantity = ... where id = ...
updateCartItem(ci, id, quantity) ==
    IF id \in DOMAIN ci THEN [ci EXCEPT ![id].quantity = quantity] ELSE ci

\* removeFromCart: delete from cart_items where id = ...
removeFromCart(ci, id) == Without(ci, {id})

\* clearCart: delete from cart_items where user_id = ...
clearCart(ci, userId) == Without(ci, {c \in DOMAIN ci : ci[c].userId = userId})

\* PUT /api/cart/:id: the handler reads the id and the body's quantity and
\* calls updateCartItem; 404 when no row came back
putCartItem(userId, cartItemId, quantity) ==
    /\ cartItems' = updateCartItem(cartItems, cartItemId, quantity)
    /\ Returns([op |-> "PUT /api/cart/:id", caller |-> userId,
                status |-> IF cartItemId \in DOMAIN cartItems THEN 200 ELSE 404])
    /\ UNCHANGED <<users, products, vrooms, follows, vroomFollows, productLikes,
                   productBookmarks, comments, orders, messages, nextId,
                   requests, served>>

\* DELETE /api/cart/:id: removeFromCart with the id, then 204
deleteCartItem(userId, cartItemId) ==
    /\ cartItems' = removeFromCart(cartItems, cartItemId)
    /\ Returns([op |-> "DELETE /api/cart/:id", caller |-> userId, status |-> 204])
    /\ UNCHANGED <<users, products, vrooms, follows, vroomFollows, productLikes,
                   productBookmarks, comments, orders, messages, nextId,
                   requests, served>>

\* DELETE /api/cart: clearCart with the caller's id, then 204
deleteCart(userId) ==
    /\ cartItems' = clearCart(cartItems, userId)
    /\ Returns([op |-> "DELETE /api/cart", caller |-> userId, status |-> 204])
    /\ UNCHANGED <<users, products, vrooms, follows, vroomFollows, productLikes,
                   productBookmarks, comments, orders, messages, nextId,
                   requests, served>>

\* ----------------------------------------------- specification: cart routes
NextCartRoutes ==
    /\ nops < MaxRouteOps
    /\ \/ \E u \in UserIds, p \in ProductIds, q \in Quantities : postCart(u, p, q)
       \/ \E u \in UserIds, c \in RowIds, q \in Quantities : putCartItem(u, c, q)
       \/ \E u \in UserIds, c \in RowIds : deleteCartItem(u, c)
       \/ \E u \in UserIds : deleteCart(u)

SpecCartRoutes == InitCartRace /\ [][NextCartRoutes]_vars

\* C27: a PUT /api/cart/:id, DELETE /api/cart/:id or DELETE /api/cart request
\* changes the quantity of, or removes, only cart rows whose userId is the
\* caller.
C27_CartRowsChangedByTheirUserOnly ==
    [][(last'.op \in CartRoutes /\ nops' = nops + 1) =>
          \A c \in DOMAIN cartItems :
              (c \notin DOMAIN cartItems' \/ cartItems'[c] # cartItems[c]) =>
                  cartItems[c].userId = last'.caller]_vars


\* =============================================== POST /api/users/:id/follow
\* a check that lets every pair through
MutSelfFollow(followerId, followingId) == FALSE

\* followerId === followingId
SelfFollow(followerId, followingId) == followerId = followingId

\* POST /api/users/:id/follow: 400 and nothing else for one's own id,
\* otherwise followUser
postFollow(followerId, followingId) ==
    IF SelfFollow(followerId, followingId)
    THEN /\ Returns([op |-> "POST /api/users/:id/follow", status |-> 400,
                     followerId |-> followerId, followingId |-> followingId])
         /\ UNCHANGED <<tables, requests, served>>
    ELSE followUser(followerId, followingId)

\* DELETE /api/users/:id/follow: unfollowUser, whatever the id
deleteFollow(followerId, followingId) == unfollowUser(followerId, followingId)

\* --------------------------------------------- specification: follow routes
NextFollowRoutes ==
    /\ nops < MaxRouteOps
    /\ \/ \E id \in UserIds : upsertUser(id)
       \/ \E a, b \in UserIds : postFollow(a, b)
       \/ \E a, b \in UserIds : deleteFollow(a, b)

SpecFollowRoutes == Init /\ [][NextFollowRoutes]_vars

\* C28: no follows row has followerId equal to followingId, and a POST
\* /api/users/:id/follow with the caller's own id is answered 400, inserts no
\* follows row and changes no follower or following counter.
C28_NoSelfFollow ==
    /\ [](\A u \in UserIds : follows[<<u, u>>] = 0)
    /\ [](last.op = "followUser" => last.followerId # last.followingId)
    /\ [][(/\ nops' = nops + 1
           /\ last'.op = "POST /api/users/:id/follow"
           /\ last'.followerId = last'.followingId) =>
              /\ last'.status = 400
              /\ follows' = follows
              /\ users' = users]_vars

\* a user who follows another and is followed back has just been refused
\* their own id
C28_Witness ==
    /\ last.op = "POST /api/users/:id/follow"
    /\ last.status = 400
    /\ last.followerId \in DOMAIN users
    /\ users[last.followerId].followersCount = 1
    /\ users[last.followerId].followingCount = 1


\* ==================================================== markConversationAsRead
\* an update that marks every message the two users exchanged
MutMarkedMessages(ms, userId, otherUserId) ==
    {m \in DOMAIN ms : \/ ms[m].senderId = otherUserId /\ ms[m].receiverId = userId
                       \/ ms[m].senderId = userId /\ ms[m].receiverId = otherUserId}

\* where sender_id = otherUserId and receiver_id = userId
MarkedMessages(ms, userId, otherUserId) ==
    {m \in DOMAIN ms : ms[m].senderId = otherUserId /\ ms[m].receiverId = userId}

\* markConversationAsRead: update messages set is_read = true where ...;
\* `last` keeps the table as the call found it
markConversationAsRead(userId, otherUserId) ==
    /\ messages' = [m \in DOMAIN messages |->
                       IF m \in MarkedMessages(messages, userId, otherUserId)
                       THEN [messages[m] EXCEPT !.isRead = TRUE]
                       ELSE messages[m]]
    /\ last' = [op |-> "markConversationAsRead", userId |-> userId,
                otherUserId |-> otherUserId, before |-> messages]
    /\ UNCHANGED <<users, products, vrooms, follows, vroomFollows, productLikes,
                   productBookmarks, comments, cartItems, orders, nextId,
                   requests, served, nops>>

\* ------------------------------------------------- specification: read marks
\* messages read and unread, all of one createdAt
MarkableRows ==
    [senderId : UserIds, receiverId : UserIds, orderId : {NoId}, isRead : BOOLEAN,
     createdAt : {1}]

InitReadMarks ==
    \E n \in 0..MaxMessages :
        \E ms \in [1..n -> MarkableRows] : Seeded(<< >>, NoEdges, NoEdges, ms)

NextReadMarks ==
    \/ \E u, o \in UserIds : markConversationAsRead(u, o)
    \/ \E u \in UserIds : getUserConversations(u)

SpecReadMarks == InitReadMarks /\ [][NextReadMarks]_vars

\* C29: markConversationAsRead(u, o) sets isRead on every message o sent to u
\* and changes no other message; a getUserConversations(u) that follows it
\* immediately reports unreadCount 0 for o and, for every other counterpart,
\* the unreadCount it had before.
C29_MarkReadsOnlyTheCounterpart ==
    /\ [](last.op = "markConversationAsRead" =>
            /\ DOMAIN messages = DOMAIN last.before
            /\ \A m \in DOMAIN messages :
                  IF /\ last.before[m].senderId = last.otherUserId
                     /\ last.before[m].receiverId = last.userId
                  THEN messages[m] = [last.before[m] EXCEPT !.isRead = TRUE]
                  ELSE messages[m] = last.before[m])
    /\ [][(/\ last.op = "markConversationAsRead"
           /\ last'.op = "getUserConversations"
           /\ last'.userId = last.userId) =>
              \A i \in 1..Len(last'.rows) :
                  last'.rows[i].unreadCount =
                      IF last'.rows[i].user = last.otherUserId THEN 0
                      ELSE Cardinality({m \in DOMAIN last.before :
                                          /\ last.before[m].senderId = last'.rows[i].user
                                          /\ last.before[m].receiverId = last.userId
                                          /\ ~last.before[m].isRead})]_vars

\* the call has just marked an unread message of the counterpart and left
\* unread a message the user had sent to the counterpart
C29_Witness ==
    /\ last.op = "markConversationAsRead"
    /\ last.userId # last.otherUserId
    /\ \E m \in DOMAIN messages :
          /\ messages[m].senderId = last.otherUserId
          /\ messages[m].receiverId = last.userId
          /\ ~last.before[m].isRead
          /\ messages[m].isRead
    /\ \E m \in DOMAIN messages :
          /\ messages[m].senderId = last.userId
          /\ messages[m].receiverId = last.otherUserId
          /\ ~messages[m].isRead


\* C30: every reply (a comment with a parentId) has the productId of its
\* parent comment, whatever parentId the bodies of POST
\* /api/products/:id/comments carried.
C30_ReplyOnParentsProduct ==
    \A c \in DOMAIN comments :
        comments[c].parentId # NoId =>
            /\ comments[c].parentId \in DOMAIN comments
            /\ comments[comments[c].parentId].productId = comments[c].productId

====
